---- MODULE Spec2Model ----
(***************************************************************************)
(* The cart store of src/src/components/cart.js (a Pinia store backed by   *)
(* localStorage in guest mode and by the remote "users" and "cart" tables  *)
(* in user mode) together with the session bootstrap of src/src/main.js.   *)
(*                                                                         *)
(* JavaScript runs one task at a time: a synchronous handler, and the      *)
(* continuation of an await whose promise is already settled, run to their *)
(* next real suspension point without interleaving.  Every action below is *)
(* one such task.  A remote call is a message in `net`, sent by the client *)
(* and run by the service in any order.  The reply to a select carries     *)
(* data read when the service ran it and reaches the continuation later    *)
(* (ServerProcess, then the ...Reply action); the reply to a write carries *)
(* only success or failure, so the write and the continuation it resumes   *)
(* are one step.                                                           *)
(*                                                                         *)
(* Item objects are mutated by reference (increaseQuantity and             *)
(* decreaseQuantity take the object).  this.items never shares an object   *)
(* with an order: placeOrder copies the references into the order and then *)
(* clearCart replaces this.items by a fresh array; every load builds fresh *)
(* objects.  A reference is therefore modelled by the place of the object: *)
(* a position in items, a position in an order, or nowhere in the state.   *)
(***************************************************************************)
EXTENDS Integers, Sequences, FiniteSets, TLC

\* Number of client operations (UI actions, session events) in a run.
MaxOps == 2

\* `product.quantity || 1`: an absent, null or zero quantity is falsy.
Unspecified == 0

NoUser == "null"
Users == {"u1"}

NoVariants == <<>>
SizeM == << <<"size", "M">> >>

Product(i, sv, p, q) == [id |-> i, selectedVariants |-> sv, price |-> p, quantity |-> q]

\* The products the UI may hand to addItem.
Products ==
  { Product(1, NoVariants, 10, Unspecified),
    Product(1, SizeM, 15, 2) }

CustomerInfos == {"alice"}

-----------------------------------------------------------------------------
\* Pure helpers

Min(a, b) == IF a < b THEN a ELSE b
Max(a, b) == IF a > b THEN a ELSE b

\* A quantity taken as it is given.
AsGiven(x) == x

\* x || 1
OrOne(x) == IF x = Unspecified THEN 1 ELSE x

\* JSON.stringify(selectedVariants): the key/value pairs in their order;
\* undefined stringifies to undefined, which === undefined.
RECURSIVE StringifyVariants(_)
StringifyVariants(sv) ==
  IF sv = <<>> THEN <<>> ELSE Head(sv) \o StringifyVariants(Tail(sv))

\* A find that compares the whole objects.
SameObject(i, product) == i = product

\* The predicate of this.items.find in addItem.
SameIdentity(i, product) ==
  /\ i.id = product.id
  /\ StringifyVariants(i.selectedVariants) = StringifyVariants(product.selectedVariants)

\* Array.prototype.find: 1-based position of the first match, 0 when none.
RECURSIVE FindFrom(_, _, _)
FindFrom(its, product, k) ==
  IF k > Len(its) THEN 0
  ELSE IF SameIdentity(its[k], product) THEN k
  ELSE FindFrom(its, product, k + 1)

Find(its, product) == FindFrom(its, product, 1)

\* Array.prototype.splice(start, deleteCount) with a JavaScript (0-based,
\* possibly negative) start: the remaining elements.
Splice(s, start, deleteCount) ==
  LET len  == Len(s)
      from == IF start < 0 THEN Max(len + start, 0) ELSE Min(start, len)
      cnt  == Min(Max(deleteCount, 0), len - from)
  IN  SubSeq(s, 1, from) \o SubSeq(s, from + cnt + 1, len)

\* items.reduce((sum, i) => sum + i.price * i.quantity, 0)
RECURSIVE OrderTotal(_)
OrderTotal(its) ==
  IF its = <<>> THEN 0
  ELSE OrderTotal(SubSeq(its, 1, Len(its) - 1)) + its[Len(its)].price * its[Len(its)].quantity

\* A totalPrice that leaves the quantities out.
RECURSIVE TotalPriceOfOne(_)
TotalPriceOfOne(its) ==
  IF its = <<>> THEN 0
  ELSE TotalPriceOfOne(SubSeq(its, 1, Len(its) - 1)) + its[Len(its)].price

\* getters
RECURSIVE ItemCountOf(_)
ItemCountOf(its) ==
  IF its = <<>> THEN 0
  ELSE ItemCountOf(SubSeq(its, 1, Len(its) - 1)) + OrOne(its[Len(its)].quantity)

RECURSIVE TotalPriceOf(_)
TotalPriceOf(its) ==
  IF its = <<>> THEN 0
  ELSE TotalPriceOf(SubSeq(its, 1, Len(its) - 1))
         + its[Len(its)].price * OrOne(its[Len(its)].quantity)

-----------------------------------------------------------------------------
\* JSON: an object is written as the tuple of its property values, in the
\* order the code creates the properties; parsing builds the objects again.

ItemToJSON(i) == <<i.id, i.selectedVariants, i.price, i.quantity>>
ItemFromJSON(j) == Product(j[1], j[2], j[3], j[4])

ItemsToJSON(its) == [k \in 1..Len(its) |-> ItemToJSON(its[k])]
ItemsFromJSON(js) == [k \in 1..Len(js) |-> ItemFromJSON(js[k])]

OrderToJSON(o) == <<ItemsToJSON(o.items), o.total, o.customer>>
OrderFromJSON(j) == [items |-> ItemsFromJSON(j[1]), total |-> j[2], customer |-> j[3]]

OrdersToJSON(os) == [k \in 1..Len(os) |-> OrderToJSON(os[k])]
OrdersFromJSON(js) == [k \in 1..Len(js) |-> OrderFromJSON(js[k])]

\* A stored cart document: a row of the cart table, or the local blob.
\* kind: "absent" (no row, no blob), "json" (a document), "corrupt" (a
\* local value JSON.parse rejects).
Doc(k, its, os) == [kind |-> k, items |-> its, orders |-> os]
Absent == Doc("absent", <<>>, <<>>)
Corrupt == Doc("corrupt", <<>>, <<>>)

\* JSON.stringify({ items, orders }) and the upsert body
Stringify(its, os) == Doc("json", ItemsToJSON(its), OrdersToJSON(os))

EmptyDoc == Stringify(<<>>, <<>>)

-----------------------------------------------------------------------------
\* State

VARIABLES
  items,       \* state.items: the item objects of the cart
  orders,      \* state.orders
  userId,      \* state.userId, NoUser for null
  isGuest,     \* state.isGuest
  localStore,  \* localStorage["guest_cart"]
  usersTable,  \* remote table users: the ids that have a row
  cartTable,   \* remote table cart: user_id -> row
  net,         \* remote calls sent and not yet delivered back, in sending order
  boot,        \* position of main.js: "querying", "initUser", "ready", "failed"
  nops,        \* number of UI operations and session events so far
  last,        \* history: the task that ran last, its argument and outcome
  session,     \* history: the user session the mutations run in
  prov         \* history: where the items of the current user session come
               \* from, and the operation that was the last logout

store == <<items, orders, userId, isGuest>>
remote == <<usersTable, cartTable>>
vars == <<items, orders, userId, isGuest, localStore, usersTable, cartTable,
          net, boot, nops, last, session, prov>>

NoOrder == [items |-> <<>>, total |-> 0, customer |-> ""]

\* The store as a task finds it.
Pre == [items |-> items, orders |-> orders, isGuest |-> isGuest, userId |-> userId]
NoPre == [items |-> <<>>, orders |-> <<>>, isGuest |-> TRUE, userId |-> NoUser]

\* What a continuation knows about the operation it belongs to.
\*   op      "saveCart" | "placeOrder" | "initUser"
\*   arg     initUser's userId
\*   caller  "initCart" | "listener" for initUser
\*   order   the order placeOrder will return
\*   start, clean, pre: history (the number of operations started, whether
\*           nothing was in flight, and the store, all at the call)
Ctx(op, arg, caller, order) ==
  [op |-> op, arg |-> arg, caller |-> caller, order |-> order,
   start |-> IF caller = "listener" THEN nops + 1 ELSE nops,
   clean |-> (net = <<>>), pre |-> Pre]

\* The save of the operation that is being counted as number nops + 1.
SaveCtx == [op |-> "saveCart", arg |-> NoUser, caller |-> "", order |-> NoOrder,
            start |-> nops + 1, clean |-> FALSE, pre |-> NoPre]

PlaceOrderCtx(order) == [SaveCtx EXCEPT !.op = "placeOrder", !.order = order]

\* A remote call.  phase "sent": on its way to the service; "replied": the
\* service has answered with { data, error } and the reply is on its way.
Call(kind, uid, body, ctx) ==
  [kind |-> kind, uid |-> uid, body |-> body, ctx |-> ctx,
   phase |-> "sent", error |-> FALSE, found |-> FALSE, data |-> Absent]

Event(op, arg, pre) ==
  [op |-> op, arg |-> arg, pre |-> pre, threw |-> FALSE, returned |-> FALSE,
   order |-> NoOrder, saveOk |-> TRUE, loaded |-> TRUE, quiet |-> FALSE]

NoEvent == Event("none", 0, NoPre)

Identity(i) == <<i.id, StringifyVariants(i.selectedVariants)>>
Identities(its) == {Identity(its[k]) : k \in 1..Len(its)}

\* The environments a run starts in: a new browser and a new account
\* ("fresh"), a new browser and an account that has a remote cart
\* ("returning"), a browser whose local value does not parse ("corrupt").
\* The cart document of the returning user:
ReturningDoc == Stringify(<<Product(1, SizeM, 15, 1)>>, <<>>)

Init ==
  /\ items = <<>>
  /\ orders = <<>>
  /\ userId = NoUser
  /\ isGuest = TRUE
  /\ \E env \in {"fresh", "returning", "corrupt"} :
       /\ localStore = IF env = "corrupt" THEN Corrupt ELSE Absent
       /\ usersTable = IF env = "returning" THEN {"u1"} ELSE {}
       /\ cartTable = [u \in Users |->
                         IF env = "returning" /\ u = "u1" THEN ReturningDoc ELSE Absent]
  /\ net = <<>>
  /\ boot = "querying"
  /\ nops = 0
  /\ last = NoEvent
  /\ session = [ok |-> FALSE, saves |-> 0]
  /\ prov = [fromGuest |-> FALSE, allowed |-> {}, at |-> 0, loggedOutAt |-> 0]

-----------------------------------------------------------------------------
\* saveCart and the mutations

\* A saveCart that writes the lists as they were before the mutation.
SaveCartStale(st, its, os, ctx) ==
  IF isGuest
    THEN [st EXCEPT !.localStore = Stringify(items, orders)]
    ELSE IF userId # NoUser
      THEN [st EXCEPT !.net = Append(st.net, Call("cartUpsert", userId, Stringify(its, os), ctx))]
      ELSE st

\* saveCart() on the snapshot { items, orders }, given what is stored and
\* in flight so far: the local blob and the calls in flight afterwards.
SaveCart(st, its, os, ctx) ==
  IF isGuest
    THEN [st EXCEPT !.localStore = Stringify(its, os)]
    ELSE IF userId # NoUser
      THEN [st EXCEPT !.net = Append(st.net, Call("cartUpsert", userId, Stringify(its, os), ctx))]
      ELSE st

Stored == [localStore |-> localStore, net |-> net]

\* The common tail of the synchronous mutations: the new lists, this.saveCart().
Mutation(op, arg, its, os) ==
  /\ nops < MaxOps
  /\ items' = its
  /\ orders' = os
  /\ LET st == SaveCart(Stored, its, os, SaveCtx)
     IN  /\ localStore' = st.localStore
         /\ net' = st.net
  /\ nops' = nops + 1
  /\ last' = Event(op, arg, Pre)
  /\ session' = IF session.ok THEN [session EXCEPT !.saves = 1] ELSE session
  /\ UNCHANGED <<userId, isGuest, usersTable, cartTable, boot>>

\* An addItem that appends the product as it is given.
AddItemKeepsQuantity(its, product) ==
  LET k == Find(its, product)
  IN  IF k # 0
        THEN [its EXCEPT ![k].quantity = OrOne(its[k].quantity) + OrOne(product.quantity)]
        ELSE Append(its, product)

\* An addItem that never merges.
AddItemAlwaysAppends(its, product) ==
  Append(its, [product EXCEPT !.quantity = OrOne(product.quantity)])

AddItemTo(its, product) ==
  LET k == Find(its, product)
  IN  IF k # 0
        THEN [its EXCEPT ![k].quantity = OrOne(its[k].quantity) + OrOne(product.quantity)]
        ELSE Append(its, [product EXCEPT !.quantity = OrOne(product.quantity)])

addItem(product) ==
  /\ Mutation("addItem", product, AddItemTo(items, product), orders)
  /\ prov' = IF isGuest THEN prov
             ELSE [prov EXCEPT !.allowed = @ \cup {Identity(product)}]

RemoveItemFrom(its, index) == Splice(its, index, 1)

removeItem(index) ==
  /\ Mutation("removeItem", index, RemoveItemFrom(items, index), orders)
  /\ UNCHANGED prov

\* References to item objects: the object at items[j], the object at
\* orders[k].items[j] (an object the UI kept from before placeOrder), or an
\* object no longer in the state.
CartRef(j) == [where |-> "cart", k |-> 0, j |-> j]
OrderRef(k, j) == [where |-> "order", k |-> k, j |-> j]
Detached == [where |-> "detached", k |-> 0, j |-> 0]

Refs ==
  {CartRef(j) : j \in 1..Len(items)}
    \cup UNION {{OrderRef(k, j) : j \in 1..Len(orders[k].items)} : k \in 1..Len(orders)}
    \cup {Detached}

\* item.quantity++ on the object the reference names
IncreasedItems(its, ref) ==
  IF ref.where = "cart" THEN [its EXCEPT ![ref.j].quantity = @ + 1] ELSE its

IncreasedOrders(os, ref) ==
  IF ref.where = "order" THEN [os EXCEPT ![ref.k].items[ref.j].quantity = @ + 1] ELSE os

increaseQuantity(ref) ==
  /\ Mutation("increaseQuantity", ref, IncreasedItems(items, ref), IncreasedOrders(orders, ref))
  /\ UNCHANGED prov

\* A decreaseQuantity that never removes the item.
DecreasedItemsNeverRemoved(its, ref) ==
  IF ref.where # "cart" THEN its ELSE [its EXCEPT ![ref.j].quantity = @ - 1]

\* decreaseQuantity: item.quantity-- above 1; otherwise the object is
\* spliced out of this.items when indexOf finds it there.
DecreasedItems(its, ref) ==
  IF ref.where # "cart" THEN its
  ELSE IF its[ref.j].quantity > 1 THEN [its EXCEPT ![ref.j].quantity = @ - 1]
  ELSE Splice(its, ref.j - 1, 1)

DecreasedOrders(os, ref) ==
  IF ref.where = "order" /\ os[ref.k].items[ref.j].quantity > 1
    THEN [os EXCEPT ![ref.k].items[ref.j].quantity = @ - 1]
    ELSE os

decreaseQuantity(ref) ==
  /\ Mutation("decreaseQuantity", ref, DecreasedItems(items, ref), DecreasedOrders(orders, ref))
  /\ UNCHANGED prov

clearCart ==
  /\ Mutation("clearCart", 0, <<>>, orders)
  /\ UNCHANGED prov

\* An order whose total is computed once the cart has been cleared.
NewOrderTotalAfterClear(its, customerInfo) ==
  [items |-> its, total |-> OrderTotal(<<>>), customer |-> customerInfo]

\* The order placeOrder builds (its id and date, both read from the clock,
\* are not modelled).
NewOrder(its, customerInfo) ==
  [items |-> its, total |-> OrderTotal(its), customer |-> customerInfo]

\* placeOrder: push the order, clearCart() (which saves without being
\* awaited), await this.saveCart(), return the order.  In guest mode the
\* awaited save has already finished and placeOrder returns in the same task;
\* in user mode it returns when the reply to its upsert is delivered.
placeOrder(customerInfo) ==
  LET order == NewOrder(items, customerInfo)
      os    == Append(orders, order)
      st1   == SaveCart(Stored, <<>>, os, SaveCtx)
      st2   == SaveCart(st1, <<>>, os, PlaceOrderCtx(order))
      now   == st2.net = net
  IN  /\ nops < MaxOps
      /\ orders' = os
      /\ items' = <<>>
      /\ localStore' = st2.localStore
      /\ net' = st2.net
      /\ nops' = nops + 1
          /\ last' = [Event("placeOrder", customerInfo, Pre)
                    EXCEPT !.returned = now, !.order = IF now THEN order ELSE NoOrder]
      /\ session' = IF session.ok THEN [session EXCEPT !.saves = 1] ELSE session
      /\ UNCHANGED <<userId, isGuest, usersTable, cartTable, boot, prov>>

-----------------------------------------------------------------------------
\* initUser

\* loadCartFromLocal(): what it leaves in items and orders, and whether
\* JSON.parse threw.
LoadCartFromLocal(its, os) ==
  IF localStore.kind = "absent" THEN [threw |-> FALSE, items |-> its, orders |-> os]
  ELSE IF localStore.kind = "corrupt" THEN [threw |-> TRUE, items |-> its, orders |-> os]
  ELSE [threw |-> FALSE, items |-> ItemsFromJSON(localStore.items),
        orders |-> OrdersFromJSON(localStore.orders)]

\* initUser(null): isGuest = true, loadCartFromLocal().  One task.
InitGuest(pre) ==
  LET r == LoadCartFromLocal(items, orders)
  IN  /\ isGuest' = TRUE
      /\ items' = r.items
      /\ orders' = r.orders
      /\ last' = [Event(IF r.threw THEN "initUserThrown" ELSE "initUserDone", NoUser, pre)
                    EXCEPT !.threw = r.threw]
      /\ session' = [ok |-> FALSE, saves |-> 0]
      /\ UNCHANGED <<userId, localStore, prov>>

\* initUser(uid) up to its first await: the mode is switched, then
\* ensureUserExists sends its select.
InitUserStart(uid, caller) ==
  /\ userId' = uid
  /\ isGuest' = FALSE
  /\ net' = Append(net, Call("usersSelect", uid, Absent, Ctx("initUser", uid, caller, NoOrder)))
  /\ last' = Event("initUser", uid, Pre)
  /\ session' = [ok |-> FALSE, saves |-> 0]
  /\ prov' = [fromGuest |-> isGuest, allowed |-> {},
              at |-> IF caller = "listener" THEN nops + 1 ELSE nops,
              loggedOutAt |-> 0]
  /\ UNCHANGED <<items, orders, localStore, usersTable, cartTable>>

Replied(i, kind) ==
  /\ i \in 1..Len(net)
  /\ net[i].kind = kind
  /\ net[i].phase = "replied"

Without(i) == SubSeq(net, 1, i - 1) \o SubSeq(net, i + 1, Len(net))

\* No other operation started while the initUser of ctx ran, and nothing
\* was in flight when it was called.
Quiet(ctx) == ctx.clean /\ ctx.start = nops

\* initUser returns.  Under initCart, main.js goes on to register the
\* listeners.
\* loaded: the select on cart did not fail; ok: no call of this step failed.
InitUserDone(ctx, loaded, ok) ==
  /\ boot' = IF ctx.caller = "initCart" THEN "ready" ELSE boot
  /\ last' = [Event("initUserDone", ctx.arg, ctx.pre)
                EXCEPT !.quiet = Quiet(ctx), !.loaded = loaded]
  /\ session' = [ok |-> Quiet(ctx) /\ loaded /\ ok, saves |-> 0]

\* initUser throws (ensureUserExists threw).  A listener leaves the rejection
\* unhandled; initCart catches it and calls initUser(null), and when that
\* throws too the top-level await of main.js rejects.
InitUserThrows(ctx) ==
  IF ctx.caller = "initCart"
    THEN /\ InitGuest(ctx.pre)
         /\ boot' = IF LoadCartFromLocal(items, orders).threw THEN "failed" ELSE "ready"
    ELSE /\ last' = [Event("initUserThrown", ctx.arg, ctx.pre)
                       EXCEPT !.threw = TRUE, !.quiet = Quiet(ctx)]
         /\ session' = [ok |-> FALSE, saves |-> 0]
         /\ UNCHANGED <<items, orders, userId, isGuest, localStore, prov, boot>>

\* loadCartFromDB() up to its await: nothing without a userId, else the
\* select on cart for this.userId.
LoadCartFromDB(i, ctx) ==
  IF userId = NoUser
    THEN /\ net' = Without(i)
         /\ InitUserDone(ctx, FALSE, FALSE)
    ELSE /\ net' = Append(Without(i), Call("cartSelect", userId, Absent, ctx))
         /\ last' = NoEvent
         /\ UNCHANGED <<boot, session>>

\* The remote service runs a call: it fails (the call has no effect and is
\* answered with an error), or it runs the call on the tables.  users.id and
\* cart.user_id are unique, so an insert of a present key is answered with
\* an error.
Answer(c, fails) ==
  LET dup == \/ c.kind = "usersInsert" /\ c.uid \in usersTable
             \/ c.kind = "cartInsert" /\ cartTable[c.uid].kind # "absent"
      err == fails \/ dup
  IN  [error |-> err,
       found |-> ~err /\ c.uid \in usersTable,
       data |-> IF ~err /\ c.kind = "cartSelect" THEN cartTable[c.uid] ELSE Absent,
       usersTable |-> IF ~err /\ c.kind = "usersInsert"
                        THEN usersTable \cup {c.uid} ELSE usersTable,
       cartTable |-> IF ~err /\ c.kind \in {"cartInsert", "cartUpsert"}
                       THEN [cartTable EXCEPT ![c.uid] = c.body] ELSE cartTable]

Sent(i, kind) ==
  /\ i \in 1..Len(net)
  /\ net[i].kind = kind
  /\ net[i].phase = "sent"

\* The service answers a select: the reply carries what the table holds now
\* and reaches the client later.  It runs an upsert of a saveCart that
\* nothing awaits: the continuation only logs an error, so the reply changes
\* nothing and is delivered in the same step.
ServerProcess(i, fails) ==
  /\ i \in 1..Len(net)
  /\ net[i].phase = "sent"
  /\ net[i].kind \in {"usersSelect", "cartSelect"} \/ net[i].ctx.op = "saveCart"
  /\ LET c == net[i]
         a == Answer(c, fails)
     IN  /\ net' = IF c.kind = "cartUpsert" THEN Without(i)
                   ELSE [net EXCEPT ![i] = [c EXCEPT !.phase = "replied", !.error = a.error,
                                                     !.found = a.found, !.data = a.data]]
         /\ usersTable' = a.usersTable
         /\ cartTable' = a.cartTable
  /\ last' = NoEvent
  /\ session' = IF fails THEN [ok |-> FALSE, saves |-> 0] ELSE session
  /\ UNCHANGED <<store, localStore, boot, nops, prov>>

\* ensureUserExists after its select
EnsureSelectReply(i) ==
  /\ Replied(i, "usersSelect")
  /\ LET c == net[i]
     IN  IF c.error
           THEN /\ net' = Without(i)
                /\ InitUserThrows(c.ctx)
                /\ UNCHANGED <<usersTable, cartTable, nops>>
           ELSE IF ~c.found
             THEN /\ net' = Append(Without(i), Call("usersInsert", c.uid, Absent, c.ctx))
                  /\ last' = NoEvent
                  /\ UNCHANGED <<store, localStore, remote, boot, nops, session, prov>>
             ELSE /\ LoadCartFromDB(i, c.ctx)
                  /\ UNCHANGED <<store, localStore, remote, nops, prov>>

\* ensureUserExists after its insert.  The reply of a write tells the client
\* only whether it failed: the write and the continuation it resumes are
\* one step.
EnsureInsertReply(i, fails) ==
  /\ Sent(i, "usersInsert")
  /\ LET c == net[i]
         a == Answer(c, fails)
     IN  /\ usersTable' = a.usersTable
         /\ cartTable' = a.cartTable
         /\ IF a.error
              THEN /\ net' = Without(i)
                   /\ InitUserThrows(c.ctx)
                   /\ UNCHANGED nops
              ELSE /\ LoadCartFromDB(i, c.ctx)
                   /\ UNCHANGED <<store, localStore, nops, prov>>

\* loadCartFromDB after its select
LoadCartReply(i) ==
  /\ Replied(i, "cartSelect")
  /\ LET c == net[i]
     IN  IF c.error
           THEN /\ net' = Without(i)
                /\ InitUserDone(c.ctx, FALSE, FALSE)
                /\ UNCHANGED <<store, localStore, remote, nops, prov>>
           ELSE IF c.data.kind = "json"
             THEN /\ items' = ItemsFromJSON(c.data.items)
                  /\ orders' = OrdersFromJSON(c.data.orders)
                  /\ net' = Without(i)
                  /\ InitUserDone(c.ctx, TRUE, TRUE)
                  /\ prov' = [prov EXCEPT !.allowed = @ \cup Identities(items')]
                  /\ UNCHANGED <<userId, isGuest, localStore, remote, nops>>
             ELSE /\ net' = Append(Without(i),
                                   Call("cartInsert", userId, EmptyDoc, c.ctx))
                  /\ last' = NoEvent
                  /\ UNCHANGED <<store, localStore, remote, boot, nops, session, prov>>

\* loadCartFromDB after its insert of the empty row: an error is only logged
CartInsertReply(i, fails) ==
  /\ Sent(i, "cartInsert")
  /\ LET a == Answer(net[i], fails)
     IN  /\ usersTable' = a.usersTable
         /\ cartTable' = a.cartTable
         /\ InitUserDone(net[i].ctx, TRUE, ~a.error)
  /\ net' = Without(i)
  /\ UNCHANGED <<store, localStore, nops, prov>>

\* saveCart after the upsert placeOrder awaits: an error is only logged, and
\* placeOrder returns its order.
SaveReply(i, fails) ==
  /\ Sent(i, "cartUpsert")
  /\ net[i].ctx.op = "placeOrder"
  /\ net' = Without(i)
  /\ LET c == net[i]
         a == Answer(c, fails)
     IN  /\ usersTable' = a.usersTable
         /\ cartTable' = a.cartTable
         /\ last' = [Event("placeOrderReturn", c.ctx.order.customer, NoPre)
                       EXCEPT !.returned = TRUE, !.order = c.ctx.order,
                              !.saveOk = ~a.error, !.quiet = (c.ctx.start = nops)]
         /\ session' = IF a.error THEN [ok |-> FALSE, saves |-> 0] ELSE session
  /\ UNCHANGED <<store, localStore, boot, nops, prov>>

-----------------------------------------------------------------------------
\* main.js

\* initCart after axios.get("/auth/current-user"): initUser(user.id) for a
\* session, initUser(null) without one or (in the catch) when the request
\* failed or initUser threw.
InitCart(answer) ==
  /\ boot = "querying"
  /\ IF answer \in Users
       THEN /\ InitUserStart(answer, "initCart")
            /\ boot' = "initUser"
       ELSE /\ InitGuest(Pre)
            /\ boot' = IF LoadCartFromLocal(items, orders).threw THEN "failed" ELSE "ready"
            /\ UNCHANGED net
  /\ UNCHANGED <<usersTable, cartTable, nops>>

\* window "user-logged-in": initUser(e.detail.userId)
UserLoggedIn(uid) ==
  /\ boot = "ready"
  /\ nops < MaxOps
  /\ InitUserStart(uid, "listener")
  /\ nops' = nops + 1
  /\ UNCHANGED boot

\* window "user-logged-out": cartStore.resetCart() is not a function of the
\* store, the call throws a TypeError and the listener ends there.
UserLoggedOut ==
  /\ boot = "ready"
  /\ nops < MaxOps
  /\ nops' = nops + 1
  /\ last' = [Event("userLoggedOut", 0, Pre) EXCEPT !.threw = TRUE]
  /\ prov' = [prov EXCEPT !.loggedOutAt = nops + 1]
  /\ UNCHANGED <<store, localStore, remote, net, boot, session>>

-----------------------------------------------------------------------------

Next ==
  \/ \E product \in Products : addItem(product)
  \/ \E index \in (0 - 2)..Len(items) : removeItem(index)
  \/ \E ref \in Refs : increaseQuantity(ref)
  \/ \E ref \in Refs : decreaseQuantity(ref)
  \/ clearCart
  \/ \E customerInfo \in CustomerInfos : placeOrder(customerInfo)
  \/ \E answer \in Users \cup {NoUser, "error"} : InitCart(answer)
  \/ \E uid \in Users : UserLoggedIn(uid)
  \/ UserLoggedOut
  \/ \E i \in 1..Len(net) : \E fails \in BOOLEAN : ServerProcess(i, fails)
  \/ \E i \in 1..Len(net) : EnsureSelectReply(i)
  \/ \E i \in 1..Len(net) : \E fails \in BOOLEAN : EnsureInsertReply(i, fails)
  \/ \E i \in 1..Len(net) : LoadCartReply(i)
  \/ \E i \in 1..Len(net) : \E fails \in BOOLEAN : CartInsertReply(i, fails)
  \/ \E i \in 1..Len(net) : \E fails \in BOOLEAN : SaveReply(i, fails)

Spec == Init /\ [][Next]_vars

-----------------------------------------------------------------------------
\* The store of a guest who comes back to a cart kept in localStorage, once
\* initCart has run initUser(null): the contracts of the cart functions and
\* of the getters on carts of several entries.

StoreProducts ==
  Products \cup { Product(1, NoVariants, 10, 3),
                  Product(2, NoVariants, 20, Unspecified) }

\* Carts the store has written: every entry got its quantity from addItem.
StoreCarts ==
  { <<>>,
    <<Product(1, NoVariants, 10, 2)>>,
    <<Product(1, SizeM, 15, 1), Product(1, NoVariants, 10, 2)>>,
    <<Product(1, NoVariants, 10, 1), Product(2, NoVariants, 20, 1), Product(1, SizeM, 15, 3)>> }

StoreOrders ==
  { <<>>,
    <<NewOrder(<<Product(1, SizeM, 15, 2)>>, "alice")>> }

InitStore ==
  /\ items \in StoreCarts
  /\ orders \in StoreOrders
  /\ userId = NoUser
  /\ isGuest = TRUE
  /\ localStore = Stringify(items, orders)
  /\ usersTable = {}
  /\ cartTable = [u \in Users |-> Absent]
  /\ net = <<>>
  /\ boot = "ready"
  /\ nops = 0
  /\ last = Event("initUserDone", NoUser, NoPre)
  /\ session = [ok |-> FALSE, saves |-> 0]
  /\ prov = [fromGuest |-> FALSE, allowed |-> {}, at |-> 0, loggedOutAt |-> 0]

\* A component reads the getters itemCount and totalPrice.
readGetters ==
  /\ last' = Event("getters", <<ItemCountOf(items), TotalPriceOf(items)>>, Pre)
  /\ UNCHANGED <<store, localStore, remote, net, boot, nops, session, prov>>

NextStore ==
  \/ \E product \in StoreProducts : addItem(product)
  \/ \E index \in (0 - 2)..Len(items) : removeItem(index)
  \/ \E ref \in Refs : increaseQuantity(ref)
  \/ \E ref \in Refs : decreaseQuantity(ref)
  \/ clearCart
  \/ \E customerInfo \in CustomerInfos : placeOrder(customerInfo)
  \/ readGetters

SpecStore == InitStore /\ [][NextStore]_vars

-----------------------------------------------------------------------------
\* Properties

MutationOps ==
  {"addItem", "removeItem", "increaseQuantity", "decreaseQuantity", "clearCart", "placeOrder"}

\* The cart record the service holds for uid, an empty one when it has none.
RemoteRecord(uid) == IF cartTable[uid].kind = "absent" THEN EmptyDoc ELSE cartTable[uid]

\* initUser(uid) has just returned; nothing else ran since it was called and
\* nothing was in flight then.
InitUserReturned ==
  /\ last.op = "initUserDone"
  /\ last.arg \in Users
  /\ last.quiet

\* C1: after initUser(userId) with a userId returns (here: with no remote
\* call failed), the items and orders in memory are those of the remote cart
\* record of userId (an empty record when there was none), whatever the store
\* held before.
C1_MemoryIsRemoteRecord ==
  (InitUserReturned /\ session.ok) => Stringify(items, orders) = RemoteRecord(last.arg)

\* C2: after a switch from guest mode to user mode, every snapshot upserted
\* by a mutation made since the switch holds only items that came from the
\* remote record or were added since the switch.
C2_NoGuestItemUpserted ==
  prov.fromGuest =>
    \A i \in 1..Len(net) :
      (net[i].kind = "cartUpsert" /\ net[i].ctx.start > prov.at)
        => Identities(ItemsFromJSON(net[i].body.items)) \subseteq prov.allowed

\* C3: when the user-logged-out listener has run, the store is in guest
\* mode and memory holds nothing of the user's cart: it is empty or it is
\* the local guest cart.
C3_LoggedOutIsGuest ==
  last.op = "userLoggedOut" =>
    /\ isGuest
    /\ \/ items = <<>> /\ orders = <<>>
       \/ Stringify(items, orders) = localStore

\* C4: in a user session in which no remote call failed, once every save
\* the mutations issued has completed, the remote cart record of userId is
\* exactly { items, orders } of memory.
C4_RemoteRecordIsMemory ==
  (session.ok /\ session.saves = 1 /\ ~isGuest /\ net = <<>>)
    => cartTable[userId] = Stringify(items, orders)

\* C5: in guest mode, when a mutation has just returned, the local blob is
\* the serialized { items, orders } of memory.
C5_GuestBlobIsMemory ==
  (isGuest /\ last.op \in MutationOps) => localStore = Stringify(items, orders)

\* A guest has placed an order for a cart that held an item.
C5_Witness ==
  /\ isGuest
  /\ last.op = "placeOrder"
  /\ orders # <<>>
  /\ orders[Len(orders)].items # <<>>
  /\ localStore = Stringify(<<>>, orders)

\* C6: placeOrder returns an order only when its persistence step succeeded.
C6_OrderOnlyWhenSaved ==
  (last.op = "placeOrderReturn" /\ last.returned) => last.saveOk

\* C7: when the select on cart failed during initUser(userId), initUser
\* returns and items and orders are empty afterwards, whatever the store held
\* before.
C7_LoadErrorLeavesEmpty ==
  (InitUserReturned /\ ~last.loaded) => (items = <<>> /\ orders = <<>>)

\* C8: when initUser(userId) throws (the account select or insert failed),
\* no cart load was attempted and items, orders, isGuest and userId are as
\* they were at the call.
C8_ThrowLeavesStore ==
  (last.op = "initUserThrown" /\ last.arg \in Users /\ last.quiet) =>
    /\ Pre = last.pre
    /\ \A i \in 1..Len(net) : net[i].kind \notin {"cartSelect", "cartInsert"}

\* C9: initUser without a userId never throws and sets isGuest; memory then
\* holds the contents of the local record when it exists and parses, and is
\* empty when there is none or it does not parse.
C9_GuestInit ==
  (last.op \in {"initUserDone", "initUserThrown"} /\ last.arg = NoUser) =>
    /\ ~last.threw
    /\ isGuest
    /\ IF localStore.kind = "json"
         THEN /\ items = ItemsFromJSON(localStore.items)
              /\ orders = OrdersFromJSON(localStore.orders)
         ELSE items = <<>> /\ orders = <<>>

\* The list s without its element at the 0-based position index.
WithoutPosition(s, index) ==
  [k \in 1..(Len(s) - 1) |-> IF k <= index THEN s[k] ELSE s[k + 1]]

\* C10: removeItem(index) removes exactly the item at index when
\* 0 <= index < length, and leaves items unchanged for every other index.
C10_RemoveItem ==
  last.op = "removeItem" =>
    items = IF 0 <= last.arg /\ last.arg < Len(last.pre.items)
              THEN WithoutPosition(last.pre.items, last.arg)
              ELSE last.pre.items

\* The sum of price x quantity over a list of items.
RECURSIVE SumPriceQuantity(_)
SumPriceQuantity(its) ==
  IF its = <<>> THEN 0
  ELSE Head(its).price * Head(its).quantity + SumPriceQuantity(Tail(its))

\* C11: placeOrder appends exactly one order, as the last element of orders,
\* whose items are the cart items at the call and whose total is the sum of
\* price x quantity over them; it leaves the earlier orders unchanged and the
\* items list empty, and it returns that order.  In guest mode it returns in
\* the task of the call; in user mode it returns when its upsert is answered,
\* and the returned order is compared with the store when no call failed and
\* no other operation ran in between.
C11_PlaceOrder ==
  /\ last.op = "placeOrder" =>
       /\ Len(orders) = Len(last.pre.orders) + 1
       /\ SubSeq(orders, 1, Len(orders) - 1) = last.pre.orders
       /\ orders[Len(orders)].items = last.pre.items
       /\ orders[Len(orders)].total = SumPriceQuantity(last.pre.items)
       /\ orders[Len(orders)].customer = last.arg
       /\ items = <<>>
       /\ (last.returned <=> isGuest)
       /\ (last.returned => last.order = orders[Len(orders)])
  /\ (last.op = "placeOrderReturn" /\ last.quiet /\ last.saveOk /\ session.ok) =>
       /\ items = <<>>
       /\ orders # <<>>
       /\ last.order = orders[Len(orders)]

\* A user's placeOrder for a cart that held an item has returned its order;
\* no call failed and nothing else ran since the call.
C11_Witness ==
  /\ last.op = "placeOrderReturn"
  /\ last.quiet /\ last.saveOk /\ session.ok
  /\ ~isGuest
  /\ last.order.items # <<>>
  /\ last.order.total = 15

\* The quantity addItem adds for product: its quantity, 1 when unspecified.
AddedQuantity(product) == IF product.quantity = Unspecified THEN 1 ELSE product.quantity

\* The positions of its whose item has the identity of product.
Matches(its, product) == {k \in 1..Len(its) : Identity(its[k]) = Identity(product)}

\* C12: addItem(product), when an item of the cart has product's identity,
\* leaves the number of entries unchanged, increases that item's quantity by
\* product's quantity (1 when unspecified) and leaves every other item
\* unchanged; [{id 1, price 10, quantity 2}] plus {id 1, price 10,
\* quantity 3} gives one item of quantity 5 and totalPrice 50.
C12_AddItemMerges ==
  (last.op = "addItem" /\ Matches(last.pre.items, last.arg) # {}) =>
    /\ Len(items) = Len(last.pre.items)
    /\ \A k \in 1..Len(items) :
         items[k] = IF k \in Matches(last.pre.items, last.arg)
                      THEN [last.pre.items[k] EXCEPT !.quantity = @ + AddedQuantity(last.arg)]
                      ELSE last.pre.items[k]
    /\ (last.pre.items = <<Product(1, NoVariants, 10, 2)>> /\ last.arg.quantity = 3)
          => (items = <<Product(1, NoVariants, 10, 5)>> /\ TotalPriceOf(items) = 50)

\* The example of C12 has run.
C12_Witness ==
  /\ last.op = "addItem"
  /\ last.pre.items = <<Product(1, NoVariants, 10, 2)>>
  /\ last.arg = Product(1, NoVariants, 10, 3)
  /\ Len(items) = 1
  /\ items[1].quantity = 5

\* C13: addItem(product), when no item of the cart has product's identity,
\* appends exactly one entry at the end of items, with product's quantity
\* when it is specified and 1 when it is not, and leaves the existing entries
\* and their order unchanged.
C13_AddItemAppends ==
  (last.op = "addItem" /\ Matches(last.pre.items, last.arg) = {}) =>
    /\ Len(items) = Len(last.pre.items) + 1
    /\ SubSeq(items, 1, Len(items) - 1) = last.pre.items
    /\ items[Len(items)] = [last.arg EXCEPT !.quantity = AddedQuantity(last.arg)]

\* A product without a quantity has been added to a cart that held other
\* products.
C13_Witness ==
  /\ last.op = "addItem"
  /\ last.arg.quantity = Unspecified
  /\ last.pre.items # <<>>
  /\ Matches(last.pre.items, last.arg) = {}
  /\ Len(items) = Len(last.pre.items) + 1
  /\ items[Len(items)].quantity = 1

\* C14: decreaseQuantity(item) on an item of the cart with quantity 1
\* removes that item and leaves the others unchanged; on an item with
\* quantity N > 1 it sets the quantity to N - 1 and does not remove it.
C14_DecreaseQuantity ==
  (last.op = "decreaseQuantity" /\ last.arg.where = "cart") =>
    LET j == last.arg.j
        q == last.pre.items[j].quantity
    IN  /\ q = 1 => items = WithoutPosition(last.pre.items, j - 1)
        /\ q > 1 => items = [k \in 1..Len(last.pre.items) |->
                               IF k = j THEN [last.pre.items[k] EXCEPT !.quantity = q - 1]
                               ELSE last.pre.items[k]]

\* The middle item of a cart of three, of quantity 1, has been removed by
\* decreaseQuantity.
C14_Witness ==
  /\ last.op = "decreaseQuantity"
  /\ last.arg = CartRef(2)
  /\ Len(last.pre.items) = 3
  /\ last.pre.items[2].quantity = 1
  /\ items = <<last.pre.items[1], last.pre.items[3]>>

\* The sum of the quantities of a list of items, an item without a quantity
\* counting as 1.
RECURSIVE SumQuantity(_)
SumQuantity(its) ==
  IF its = <<>> THEN 0
  ELSE (IF Head(its).quantity = Unspecified THEN 1 ELSE Head(its).quantity)
         + SumQuantity(Tail(its))

C15_QuantityAtLeastOne ==
  \A k \in 1..Len(items) : items[k].quantity \in Nat /\ items[k].quantity >= 1

\* decreaseQuantity has taken the quantity of an item added with quantity 2
\* down to 1.
C15_Witness ==
  /\ last.op = "decreaseQuantity"
  /\ last.arg = CartRef(1)
  /\ last.pre.items # <<>>
  /\ last.pre.items[1].quantity = 2
  /\ items # <<>>
  /\ items[1].quantity = 1

\* C20: starting from an empty cart, after any sequence of addItem,
\* removeItem, increaseQuantity, decreaseQuantity, clearCart and placeOrder,
\* no two entries of the items list have the same identity.
C20_NoDuplicateIdentity ==
  \A j, k \in 1..Len(items) : Identity(items[j]) = Identity(items[k]) => j = k

\* The same product has been added twice; the cart has one entry for it.
C20_Witness ==
  /\ last.op = "addItem"
  /\ Matches(last.pre.items, last.arg) # {}
  /\ Len(items) = 1
  /\ items[1].quantity = 2

\* The saves in flight.
SavesInFlight == {i \in 1..Len(net) : net[i].kind = "cartUpsert"}

\* C17: no cart operation runs while a save of an earlier operation is
\* pending, and at most one remote save is in flight at any time.
C17_OneSaveInFlight ==
  /\ last.op \in MutationOps => \A i \in SavesInFlight : net[i].ctx.start = nops
  /\ Cardinality(SavesInFlight) <= 1

\* C18: no cart operation changes an order that has been placed: the total
\* of every order is the sum of price x quantity over its items, and
\* increaseQuantity and decreaseQuantity leave the orders as they were.
C18_OrdersImmutable ==
  /\ \A k \in 1..Len(orders) : orders[k].total = SumPriceQuantity(orders[k].items)
  /\ last.op \in {"increaseQuantity", "decreaseQuantity"} => orders = last.pre.orders

\* C19: once the user-logged-out listener has run (and no login since), no
\* mutation sends a save to the remote cart record, and a mutation leaves
\* the cart in localStorage.
C19_NoRemoteWriteAfterLogout ==
  prov.loggedOutAt > 0 =>
    /\ \A i \in SavesInFlight : net[i].ctx.start <= prov.loggedOutAt
    /\ last.op \in MutationOps => localStore = Stringify(items, orders)

====
